---- MODULE Spec2Model ----
(***************************************************************************)
(* A model of pyani's Grid Engine job scheduler (src/pyani/run_sge.py):    *)
(* flattening a job graph (build_joblist / populate_jobset), compiling a   *)
(* dependency-free job list into batches (compile_jobgroups_from_joblist), *)
(* and the cluster adapter (build_directories, build_job_scripts,          *)
(* submit_jobs, extract_submittable_jobs, submit_safe_jobs, job.wait).     *)
(* Also the callers in src/pyani/scripts/subcommands/subcmd_anim.py:       *)
(* generate_joblist, which builds and names the jobs of an ANIm run, and   *)
(* run_anim_jobs with the local worker pool.                               *)
(***************************************************************************)
EXTENDS Integers, Sequences, FiniteSets, TLC

VARIABLES
    dependencies,   \* job.dependencies of every caller-built Job
    jobgraph,       \* the list of root jobs passed to run_dependency_graph
    sgeargs,        \* TRUE iff extra qsub arguments are passed (FALSE: None)
    qsubfails,      \* TRUE iff the cluster may refuse a submission in this run
    mkdirfails,     \* TRUE iff creating a directory may fail in this run
    pc,             \* the control point of run_dependency_graph
    jobset,         \* build_joblist's jobset
    rootIdx,        \* position of build_joblist's loop in jobgraph
    joblist,        \* run_dependency_graph's joblist
    dep_count,      \* run_dependency_graph's dep_count
    grouped,        \* TRUE iff the branch of line 97 was taken
    cmds,           \* the list passed to the Group Compiler
    sgegroupsize,   \* the group size passed to the Group Compiler
    batches,        \* the Job objects built by compile_jobgroups_from_joblist
    dirs,           \* the index-keyed directories that exist
    files,          \* the script files written, by path
    scriptpath,     \* job.scriptpath of every job object
    outerr,         \* job.out and job.err of every job object
    submitted,      \* job.submitted of every job object
    waiting,        \* submit_jobs' waiting list
    submittable,    \* the list returned by extract_submittable_jobs
    subIdx,         \* position of submit_safe_jobs' loop in submittable
    qsublog,        \* the submission invocations executed, in order
    waves,          \* the jobs extracted by each iteration of submit_jobs
    waited,         \* the jobs whose wait() was called, in order
    comparisons,    \* generate_joblist: per comparison, TRUE iff its output exists
    recovery,       \* generate_joblist: args.recovery
    animidx,        \* generate_joblist: the comparisons handled so far
    animjobs,       \* generate_joblist: the filter jobs built, with their nucmer job
    workers,        \* run_anim_jobs: args.workers, the width of the local pool
    mpstate,        \* local adapter: the state of every job's process
    cumval          \* local adapter: the cumulative failure count

inputVars == <<dependencies, jobgraph, sgeargs, qsubfails, mkdirfails>>
flattenVars == <<jobset, rootIdx>>
branchVars == <<dep_count, grouped, cmds, sgegroupsize, batches>>
buildVars == <<dirs, files, scriptpath>>
submitVars == <<outerr, submitted, waiting, submittable, subIdx, qsublog, waves>>

animVars == <<comparisons, recovery, animidx, animjobs>>
localVars == <<workers, mpstate, cumval>>
restVars == <<animVars, localVars>>

vars == <<inputVars, flattenVars, branchVars, buildVars, submitVars,
          pc, joblist, waited, animVars, localVars>>

----------------------------------------------------------------------------
\* Bounds of the model.

\* The number of Job objects of the job graphs enumerated in full.
NJobs == 3

\* The longest list of root jobs a caller passes.
MaxRoots == 2

\* The largest group size passed to the Group Compiler.
MaxGroupSize == 2

\* The longest waiting list handed to extract_submittable_jobs on its own.
MaxWaiting == 2

\* The longest command list handed to the Group Compiler on its own.
MaxCmds == 4

\* The widest local worker pool.
MaxWorkers == 2

\* The longest list of comparisons handed to generate_joblist.
MaxComparisons == 3

\* The job objects a caller builds: at least the four of the diamond graph.
Jobs == 1..(IF NJobs < 4 THEN 4 ELSE NJobs)

\* A batch built by the Group Compiler is a new Job object: the k-th batch of
\* a run is the object BatchId(k).
BatchId(k) == Cardinality(Jobs) + k

BatchIds == {BatchId(k) : k \in 1..Cardinality(Jobs)}

JobIds == Jobs \cup BatchIds

\* The interpreter's recursion limit, scaled to the model: a chain of
\* populate_jobset calls longer than the number of jobs revisits a job.
RecursionLimit == Cardinality(Jobs) + 1

\* More iterations of submit_jobs' loop than there are job objects.
MaxWaves == Cardinality(JobIds) + 1

----------------------------------------------------------------------------
\* Helpers.

Range(s) == {s[i] : i \in DOMAIN s}

\* Every list holding each element of S once: the orders list(S) can have.
Perms(S) ==
    {s \in [1..Cardinality(S) -> S] : \A i, j \in DOMAIN s : i # j => s[i] # s[j]}

\* The elements of S as a list, in the order they have in the list ord.
RECURSIVE Ordered(_, _)
Ordered(S, ord) ==
    IF ord = <<>> THEN <<>>
    ELSE (IF Head(ord) \in S THEN <<Head(ord)>> ELSE <<>>) \o Ordered(S, Tail(ord))

\* The elements of a set of numbers as a list, in ascending order.
RECURSIVE Ascending(_)
Ascending(S) ==
    IF S = {} THEN <<>>
    ELSE LET m == CHOOSE x \in S : \A y \in S : x <= y
         IN <<m>> \o Ascending(S \ {m})

\* list.remove(x): the list without its first x.
RECURSIVE Remove(_, _)
\* A removal that also drops what follows the first x.
Remove_rest(s, x) ==
    IF s = <<>> THEN <<>>
    ELSE IF Head(s) = x THEN <<>>
    ELSE <<Head(s)>> \o Remove(Tail(s), x)

Remove(s, x) ==
    IF s = <<>> THEN <<>>
    ELSE IF Head(s) = x THEN Tail(s)
    ELSE <<Head(s)>> \o Remove(Tail(s), x)

----------------------------------------------------------------------------
\* The Job objects (pyani_jobs.Job).

NoPath == <<>>

\* job.name: the name the caller gave, or the name of the batch.
Name(j) ==
    IF j \in BatchIds THEN batches[j - Cardinality(Jobs)].name
    ELSE IF (j + 1) \div 2 \in DOMAIN animjobs /\ j % 2 = 0
    THEN animjobs[j \div 2].name
    ELSE IF (j + 1) \div 2 \in DOMAIN animjobs
            /\ animjobs[(j + 1) \div 2].dependencies # <<>>
    THEN animjobs[(j + 1) \div 2].dependencies[1].name
    ELSE <<"job", j>>

\* job.index: unique among the caller's jobs; a batch has the index "0".
Index(j) == IF j \in Jobs THEN j ELSE batches[j - Cardinality(Jobs)].index

\* job.command of a caller-built job: an opaque one-line string.
Command(j) == <<"cmd", j>>

\* job.script: the text build_job_scripts writes, i.e. the job's command.
Script(j) == IF j \in Jobs THEN <<Command(j)>> ELSE batches[j - Cardinality(Jobs)].command

\* job.dependencies: a batch is built by Job(name, command, "0") and has none.
Deps(j) == IF j \in Jobs THEN dependencies[j] ELSE {}

\* isinstance(job, JobGroup)
IsJobGroup(j) == j \in BatchIds /\ batches[j - Cardinality(Jobs)].kind = "JobGroup"

----------------------------------------------------------------------------
\* split_seq and compile_jobgroups_from_joblist.

NL == "\n"

\* list(itertools.islice(elm, size)): the next size items, or those left.
islice(rest, size) ==
    SubSeq(rest, 1, IF size < Len(rest) THEN size ELSE Len(rest))

\* A split that yields full chunks only.
RECURSIVE split_seq_full(_, _)
split_seq_full(iterable, size) ==
    IF size = 0 \/ Len(iterable) < size THEN <<>>
    ELSE <<SubSeq(iterable, 1, size)>>
             \o split_seq_full(SubSeq(iterable, size + 1, Len(iterable)), size)

RECURSIVE split_seq(_, _)
split_seq(iterable, size) ==
    LET item == islice(iterable, size)
    IN IF item = <<>> THEN <<>>
       ELSE <<item>> \o split_seq(SubSeq(iterable, Len(item) + 1, Len(iterable)), size)

\* Lines 52-54: every command of the sublist followed by a newline.
RECURSIVE sge_jobcmds(_)
sge_jobcmds(sublist) ==
    IF sublist = <<>> THEN <<>>
    ELSE <<Head(sublist), NL>> \o sge_jobcmds(Tail(sublist))

\* Line 55: Job("%s_%d" % (jgprefix, count), sge_jobcmds, "0"), a plain Job.
BatchJob(prefix, count, sublist) ==
    [kind |-> "Job", name |-> <<prefix, "_", count>>,
     command |-> sge_jobcmds(sublist), index |-> 0]

compile_jobgroups_from_joblist(commands, prefix, size) ==
    LET sublists == split_seq(commands, size)
    IN [count \in 1..Len(sublists) |-> BatchJob(prefix, count, sublists[count])]

----------------------------------------------------------------------------
\* populate_jobset (the recursion of build_joblist).

\* populate_jobset(job, jobset, depth), visiting the dependencies of a job in
\* the order they have in ord.  The result holds the jobset, and raised = TRUE
\* when the calls nest deeper than the interpreter allows (RecursionError).
RECURSIVE populate_jobset(_, _, _, _, _)
RECURSIVE populate_loop(_, _, _, _, _)
\* A loop that returns after its first iteration.
populate_loop_first(todo, js, depth, ord, d) ==
    IF todo = <<>> THEN [raised |-> FALSE, jobset |-> js]
    ELSE populate_jobset(Head(todo), js, depth + 1, ord, d)

\* A flattening that reads depth: below depth 2 a job is added without its
\* dependencies.
populate_jobset_shallow(job, js, depth, ord, d) ==
    IF depth >= 2 THEN [raised |-> FALSE, jobset |-> js \cup {job}]
    ELSE IF Cardinality(d[job]) = 0 THEN [raised |-> FALSE, jobset |-> js \cup {job}]
    ELSE populate_loop(Ordered(d[job], ord), js \cup {job}, depth, ord, d)

populate_jobset(job, js, depth, ord, d) ==
    IF depth > RecursionLimit THEN [raised |-> TRUE, jobset |-> js]
    ELSE IF Cardinality(d[job]) = 0 THEN [raised |-> FALSE, jobset |-> js \cup {job}]
    ELSE populate_loop(Ordered(d[job], ord), js \cup {job}, depth, ord, d)

\* Lines 120-122: for j in job.dependencies: jobset = populate_jobset(...).
populate_loop(todo, js, depth, ord, d) ==
    IF todo = <<>> THEN [raised |-> FALSE, jobset |-> js]
    ELSE LET r == populate_jobset(Head(todo), js, depth + 1, ord, d)
         IN IF r.raised THEN r
            ELSE populate_loop(Tail(todo), r.jobset, depth, ord, d)

----------------------------------------------------------------------------
\* The parts of the program a run of the cluster adapter does not enter.

\* generate_joblist has not been called.
AnimIdle ==
    /\ comparisons = <<>>
    /\ recovery = FALSE
    /\ animidx = 0
    /\ animjobs = <<>>

\* The local adapter has not been called.
LocalIdle ==
    /\ workers = 1
    /\ mpstate = [j \in Jobs |-> "pending"]
    /\ cumval = 0

----------------------------------------------------------------------------
\* The initial state: the arguments of run_dependency_graph.

RECURSIVE ReachFrom(_, _, _)
ReachFrom(S, d, n) ==
    IF n = 0 THEN S
    ELSE ReachFrom(S \cup UNION {d[j] : j \in S}, d, n - 1)

\* The jobs reachable from the jobs of S along dependency edges, S included.
Reachable(S, d) == ReachFrom(S, d, Cardinality(Jobs))

\* d has a cycle through a job reachable from S.
CyclicFrom(S, d) == \E j \in Reachable(S, d) : j \in Reachable(d[j], d)

\* Acyclic graphs on the jobs 1..n: a job depends on lower-numbered jobs
\* (every acyclic graph, up to the numbering of its jobs).
DAGs(n) ==
    {d \in [Jobs -> SUBSET (1..n)] :
        \A j \in Jobs : d[j] \subseteq 1..(j - 1) /\ (j > n => d[j] = {})}

\* The graph d and one more edge, from a to b, that closes a cycle.
WithCycle(d, n) ==
    {[d EXCEPT ![e[1]] = @ \cup {e[2]}] :
        e \in {x \in (1..n) \X (1..n) : x[1] \in Reachable({x[2]}, d)}}

Graphs(n) == DAGs(n) \cup UNION {WithCycle(d, n) : d \in DAGs(n)}

RootLists(n) == UNION {[1..k -> 1..n] : k \in 0..MaxRoots}

\* D (4) depends on B (2) and C (3), which both depend on A (1).
Diamond == [j \in Jobs |-> CASE j = 4 -> {2, 3}
                              [] j \in {2, 3} -> {1}
                              [] OTHER -> {}]

InitRun ==
    /\ jobset = {}
    /\ rootIdx = 1
    /\ joblist = <<>>
    /\ dep_count = 0
    /\ grouped = FALSE
    /\ cmds = <<>>
    /\ sgegroupsize = 0
    /\ batches = <<>>
    /\ dirs = {}
    /\ files = <<>>
    /\ scriptpath = [j \in JobIds |-> NoPath]
    /\ outerr = [j \in JobIds |-> NoPath]
    /\ submitted = [j \in JobIds |-> FALSE]
    /\ waiting = <<>>
    /\ submittable = <<>>
    /\ subIdx = 1
    /\ qsublog = <<>>
    /\ waves = <<>>
    /\ waited = <<>>

\* Every job graph on NJobs jobs with every list of roots, run without extra
\* qsub arguments (sgeargs=None, the default) on a cluster that accepts every
\* submission and a file system that makes every directory, and the diamond
\* run from D, without and with extra arguments, on a cluster that accepts
\* every submission and on one that may refuse any, on a file system that
\* makes every directory and on one where making a directory may fail.
Init ==
    /\ \/ /\ dependencies \in Graphs(NJobs)
          /\ jobgraph \in RootLists(NJobs)
          /\ sgeargs = FALSE
          /\ qsubfails = FALSE
          /\ mkdirfails = FALSE
       \/ /\ dependencies = Diamond
          /\ jobgraph = <<4>>
          /\ sgeargs \in BOOLEAN
          /\ qsubfails \in BOOLEAN
          /\ mkdirfails \in BOOLEAN
    /\ pc = "build_joblist"
    /\ InitRun
    /\ AnimIdle
    /\ LocalIdle

----------------------------------------------------------------------------
\* build_joblist.

\* The orders in which "for j in job.dependencies" can visit the dependencies
\* of the jobs of d: every order of the jobs that share a dependency list
\* with another job, followed by the jobs that never do.
TraversalOrders(d) ==
    LET S == UNION {d[j] : j \in {x \in Jobs : Cardinality(d[x]) > 1}}
    IN {o \o Ascending(Jobs \ S) : o \in Perms(S)}

\* Lines 36-37: one iteration of the loop over the roots.
build_joblist_loop ==
    /\ pc = "build_joblist"
    /\ rootIdx <= Len(jobgraph)
    /\ \E ord \in TraversalOrders(dependencies) :
         LET r == populate_jobset(jobgraph[rootIdx], jobset, 1, ord, dependencies)
         IN IF r.raised
            THEN pc' = "RecursionError" /\ jobset' = r.jobset /\ rootIdx' = rootIdx
            ELSE pc' = pc /\ jobset' = r.jobset /\ rootIdx' = rootIdx + 1
    /\ UNCHANGED <<restVars, inputVars, branchVars, buildVars, submitVars, joblist, waited>>

\* Line 38: list(jobset), in the set's iteration order.
build_joblist_return ==
    /\ pc = "build_joblist"
    /\ rootIdx > Len(jobgraph)
    /\ joblist' \in Perms(jobset)
    /\ pc' = "log"
    /\ UNCHANGED <<restVars, inputVars, flattenVars, branchVars, buildVars, submitVars, waited>>

----------------------------------------------------------------------------
\* run_dependency_graph, lines 83-100.

\* A count that stops after the first job.
SumLen_first(jobs) ==
    IF jobs = <<>> THEN 0 ELSE Cardinality(Deps(Head(jobs)))

RECURSIVE SumLen(_)
SumLen(jobs) ==
    IF jobs = <<>> THEN 0
    ELSE Cardinality(Deps(Head(jobs))) + SumLen(Tail(jobs))

\* Lines 83-92: dep_count is counted only under "if logger:", and line 92
\* calls logger.info whether or not a logger was passed (logger=None).
log_jobs ==
    /\ pc = "log"
    /\ \E logger \in BOOLEAN :
         IF logger
         THEN dep_count' = SumLen(joblist) /\ pc' = "branch"
         ELSE dep_count' = dep_count /\ pc' = "AttributeError"
    /\ UNCHANGED <<restVars, inputVars, flattenVars, grouped, cmds, sgegroupsize, batches,
                   buildVars, submitVars, joblist, waited>>

jgprefix == "ANIm_SGE_JG"

\* Lines 97-100: the job list is replaced by the batches.
compile_jobgroups ==
    /\ pc = "branch"
    /\ dep_count = 0
    /\ cmds' = [i \in 1..Len(joblist) |-> Command(joblist[i])]
    /\ sgegroupsize' \in 0..MaxGroupSize
    /\ batches' = compile_jobgroups_from_joblist(cmds', jgprefix, sgegroupsize')
    /\ joblist' = [k \in 1..Len(batches') |-> BatchId(k)]
    /\ grouped' = TRUE
    /\ pc' = "build_directories"
    /\ UNCHANGED <<restVars, inputVars, flattenVars, dep_count, buildVars, submitVars, waited>>

\* Line 97, the branch not taken.
keep_joblist ==
    /\ pc = "branch"
    /\ dep_count # 0
    /\ pc' = "build_directories"
    /\ UNCHANGED <<restVars, inputVars, flattenVars, branchVars, buildVars, submitVars,
                   joblist, waited>>

----------------------------------------------------------------------------
\* build_and_submit_jobs: build_directories, build_job_scripts, submit_jobs.

\* The three index-keyed directories of a job.
JobDirs(j) == {<<"jobs", Index(j)>>, <<"stdout", Index(j)>>, <<"stderr", Index(j)>>}

\* Lines 151-157: the directories os.makedirs is called for, in order.
RECURSIVE MkdirSeq(_)
MkdirSeq(jobs) ==
    IF jobs = <<>> THEN <<>>
    ELSE LET index == Index(Head(jobs))
         IN <<<<"jobs", index>>, <<"stdout", index>>, <<"stderr", index>>>>
            \o MkdirSeq(Tail(jobs))

\* The number of index-keyed directories made before a call of os.mkdir or
\* os.makedirs raises OSError (0 when one of lines 137-149 raises); all of
\* them when no call raises.
MkdirOutcomes(jobs) ==
    IF mkdirfails THEN 0..Len(MkdirSeq(jobs)) ELSE {Len(MkdirSeq(jobs))}

\* A build_directories that catches the OSError and carries on.
build_directories_ignore ==
    /\ pc = "build_directories"
    /\ \E n \in MkdirOutcomes(joblist) :
         dirs' = dirs \cup {MkdirSeq(joblist)[i] : i \in 1..n}
    /\ pc' = "build_job_scripts"
    /\ UNCHANGED <<restVars, inputVars, flattenVars, branchVars, files, scriptpath,
                   submitVars, joblist, waited>>

\* Lines 137-157.  No call is guarded by try/except: an OSError leaves
\* build_directories, build_and_submit_jobs and run_dependency_graph.
build_directories ==
    /\ pc = "build_directories"
    /\ \E n \in MkdirOutcomes(joblist) :
         /\ dirs' = dirs \cup {MkdirSeq(joblist)[i] : i \in 1..n}
         /\ pc' = IF n < Len(MkdirSeq(joblist)) THEN "OSError" ELSE "build_job_scripts"
    /\ UNCHANGED <<restVars, inputVars, flattenVars, branchVars, files, scriptpath,
                   submitVars, joblist, waited>>

\* Line 169-170: the path of a job's script.
ScriptPath(j) == <<"jobs", Index(j), Name(j)>>

\* A script that keeps only the first item of the job's text.
ScriptText_truncated(j) ==
    <<"#!/bin/sh", NL, "#$ -S /bin/bash", NL>> \o SubSeq(Script(j), 1, 1) \o <<NL>>

\* Line 172: "#!/bin/sh\n#$ -S /bin/bash\n%s\n" % job.script
ScriptText(j) == <<"#!/bin/sh", NL, "#$ -S /bin/bash", NL>> \o Script(j) \o <<NL>>

\* Lines 168-173, for the jobs of a list in turn: a later job overwrites the
\* file an earlier one wrote to the same path.
RECURSIVE WriteScripts(_, _)
WriteScripts(jobs, fs) ==
    IF jobs = <<>> THEN fs
    ELSE LET j == Head(jobs)
             p == ScriptPath(j)
         IN WriteScripts(Tail(jobs),
                [q \in DOMAIN fs \cup {p} |-> IF q = p THEN ScriptText(j) ELSE fs[q]])

\* A build_job_scripts that writes no file: the scripts are left for later.
build_job_scripts_lazy ==
    /\ pc = "build_job_scripts"
    /\ files' = files
    /\ scriptpath' = [j \in JobIds |->
                        IF j \in Range(joblist) THEN ScriptPath(j) ELSE scriptpath[j]]
    /\ pc' = "submit_jobs"
    /\ UNCHANGED <<restVars, inputVars, flattenVars, branchVars, dirs, submitVars, joblist, waited>>

build_job_scripts ==
    /\ pc = "build_job_scripts"
    /\ files' = WriteScripts(joblist, files)
    /\ scriptpath' = [j \in JobIds |->
                        IF j \in Range(joblist) THEN ScriptPath(j) ELSE scriptpath[j]]
    /\ pc' = "submit_jobs"
    /\ UNCHANGED <<restVars, inputVars, flattenVars, branchVars, dirs, submitVars, joblist, waited>>

\* A count of the dependencies that are submitted.
unsatisfied_inverted(job, sub) ==
    Cardinality({subjob \in Deps(job) : sub[subjob] = TRUE})

\* A count that is zero as soon as one dependency is submitted.
unsatisfied_any(job, sub) ==
    IF \E subjob \in Deps(job) : sub[subjob] = TRUE THEN 0
    ELSE Cardinality(Deps(job))

\* An extraction that does not look at the dependencies.
extract_all(w, sub) == Range(w)

\* A count of all the dependencies, submitted or not.
unsatisfied_all(job, sub) == Cardinality(Deps(job))

\* Lines 187-190: the jobs of waiting none of whose dependencies is unsubmitted.
unsatisfied(job, sub) == Cardinality({subjob \in Deps(job) : sub[subjob] = FALSE})

\* An extraction that returns one submittable job at most.
extract_one(w, sub) ==
    LET S == {job \in Range(w) : unsatisfied(job, sub) = 0}
    IN IF S = {} THEN {} ELSE {CHOOSE job \in S : \A other \in S : job <= other}

extract_submittable_jobs(w, sub) == {job \in Range(w) : unsatisfied(job, sub) = 0}

\* Line 244: waiting = list(jobs).
submit_jobs ==
    /\ pc = "submit_jobs"
    /\ waiting' = joblist
    /\ pc' = "submit_loop"
    /\ UNCHANGED <<restVars, inputVars, flattenVars, branchVars, buildVars, outerr, submitted,
                   submittable, subIdx, qsublog, waves, joblist, waited>>

\* A loop that tests len(waiting) only after its body (do ... while).
submit_loop_dowhile ==
    /\ pc = "submit_loop"
    /\ Len(waves) < MaxWaves
    /\ submittable' \in Perms(extract_submittable_jobs(waiting, submitted))
    /\ waves' = Append(waves, Range(submittable'))
    /\ subIdx' = 1
    /\ pc' = "submit_safe_jobs"
    /\ UNCHANGED <<restVars, inputVars, flattenVars, branchVars, buildVars, outerr, submitted,
                   waiting, qsublog, joblist, waited>>

\* Lines 246-248: the loop test and the extraction of one iteration.
submit_loop ==
    /\ pc = "submit_loop"
    /\ Len(waiting) > 0
    /\ Len(waves) < MaxWaves
    /\ submittable' \in Perms(extract_submittable_jobs(waiting, submitted))
    /\ waves' = Append(waves, Range(submittable'))
    /\ subIdx' = 1
    /\ pc' = "submit_safe_jobs"
    /\ UNCHANGED <<restVars, inputVars, flattenVars, branchVars, buildVars, outerr, submitted,
                   waiting, qsublog, joblist, waited>>

\* Lines 221-227: "-hold_jid " and the names of the dependencies, each
\* followed by a comma; args[:-1] then drops the last character.
RECURSIVE HoldNames(_)
HoldNames(deps) ==
    IF deps = <<>> THEN <<>>
    ELSE <<Name(Head(deps)), ",">> \o HoldNames(Tail(deps))

\* The hold argument without args = args[:-1]: the last comma stays.
HoldArgs_comma(j) ==
    IF Cardinality(Deps(j)) > 0
    THEN <<"-hold_jid ">> \o HoldNames(Ascending(Deps(j)))
    ELSE <<>>

HoldArgs(j) ==
    IF Cardinality(Deps(j)) > 0
    THEN LET args == <<"-hold_jid ">> \o HoldNames(Ascending(Deps(j)))
         IN SubSeq(args, 1, Len(args) - 1)
    ELSE <<>>

\* Lines 208-232: the qsub command line of a job.
qsubcmd(j) ==
    [name |-> Name(j),
     out |-> <<"stdout", Index(j)>>,
     err |-> <<"stderr", Index(j)>>,
     tasks |-> IF IsJobGroup(j) THEN <<"-t 1:", batches[j - Cardinality(Jobs)].tasks>>
               ELSE <<>>,
     hold |-> HoldArgs(j),
     script |-> IF sgeargs THEN scriptpath[j] ELSE NoPath]

\* Line 233: the exit statuses os.system(qsubcmd) can return: 0, or nonzero
\* when the cluster refuses the submission.
ExitStatuses == IF qsubfails THEN {0, 1} ELSE {0}

\* A submission that clears the flag of every other job.
submit_safe_jobs_reset ==
    /\ pc = "submit_safe_jobs"
    /\ subIdx <= Len(submittable)
    /\ LET job == submittable[subIdx]
       IN /\ outerr' = [outerr EXCEPT ![job] = <<Index(job)>>]
          /\ \E status \in ExitStatuses :
               qsublog' = Append(qsublog, [job |-> job, cmd |-> qsubcmd(job),
                                           status |-> status])
          /\ submitted' = [j \in JobIds |-> j = job]
    /\ subIdx' = subIdx + 1
    /\ UNCHANGED <<restVars, inputVars, flattenVars, branchVars, buildVars, waiting,
                   submittable, waves, pc, joblist, waited>>

\* A submission that also strikes the submitted job from the dependencies of
\* the jobs that wait for it.
submit_safe_jobs_release ==
    /\ pc = "submit_safe_jobs"
    /\ subIdx <= Len(submittable)
    /\ LET job == submittable[subIdx]
       IN /\ outerr' = [outerr EXCEPT ![job] = <<Index(job)>>]
          /\ \E status \in ExitStatuses :
               qsublog' = Append(qsublog, [job |-> job, cmd |-> qsubcmd(job),
                                           status |-> status])
          /\ submitted' = [submitted EXCEPT ![job] = TRUE]
          /\ dependencies' = [j \in Jobs |-> dependencies[j] \ {job}]
    /\ subIdx' = subIdx + 1
    /\ UNCHANGED <<restVars, jobgraph, sgeargs, qsubfails, mkdirfails, flattenVars,
                   branchVars, buildVars, waiting, submittable, waves, pc, joblist, waited>>

\* Lines 202-234: one iteration of submit_safe_jobs' loop.  os.system
\* returns the exit status of qsub; the code does not keep it, and line 234
\* sets the flag whatever it was.
submit_safe_jobs ==
    /\ pc = "submit_safe_jobs"
    /\ subIdx <= Len(submittable)
    /\ LET job == submittable[subIdx]
       IN /\ outerr' = [outerr EXCEPT ![job] = <<Index(job)>>]
          /\ \E status \in ExitStatuses :
               qsublog' = Append(qsublog, [job |-> job, cmd |-> qsubcmd(job),
                                           status |-> status])
          /\ submitted' = [submitted EXCEPT ![job] = TRUE]
    /\ subIdx' = subIdx + 1
    /\ UNCHANGED <<restVars, inputVars, flattenVars, branchVars, buildVars, waiting,
                   submittable, waves, pc, joblist, waited>>

\* Lines 252-253: every submitted job is removed from waiting.
RECURSIVE RemoveAll(_, _)
\* A removal loop that removes nothing.
RemoveAll_none(w, jobs) == w

RemoveAll(w, jobs) ==
    IF jobs = <<>> THEN w
    ELSE RemoveAll(Remove(w, Head(jobs)), Tail(jobs))

submit_jobs_remove ==
    /\ pc = "submit_safe_jobs"
    /\ subIdx > Len(submittable)
    /\ waiting' = RemoveAll(waiting, submittable)
    /\ pc' = "submit_loop"
    /\ UNCHANGED <<restVars, inputVars, flattenVars, branchVars, buildVars, outerr, submitted,
                   submittable, subIdx, qsublog, waves, joblist, waited>>

\* A wait loop that starts while jobs are still waiting to be submitted.
wait_jobs_early ==
    /\ pc = "submit_loop"
    /\ waited' = waited \o joblist
    /\ pc' = "done"
    /\ UNCHANGED <<restVars, inputVars, flattenVars, branchVars, buildVars, submitVars, joblist>>

\* Line 246, the loop ends; lines 109-110: job.wait() for each job of joblist
\* in turn, each call blocking until the cluster no longer lists the job.
wait_jobs ==
    /\ pc = "submit_loop"
    /\ Len(waiting) = 0
    /\ waited' = waited \o joblist
    /\ pc' = "done"
    /\ UNCHANGED <<restVars, inputVars, flattenVars, branchVars, buildVars, submitVars, joblist>>

\* Lines 60-110: run_dependency_graph has no return statement, and neither
\* submit_safe_jobs nor submit_jobs returns or stores anything: the values
\* the caller receives when the run has ended (None).
retval == <<>>

Next ==
    \/ build_joblist_loop
    \/ build_joblist_return
    \/ log_jobs
    \/ compile_jobgroups
    \/ keep_joblist
    \/ build_directories
    \/ build_job_scripts
    \/ submit_jobs
    \/ submit_loop
    \/ submit_safe_jobs
    \/ submit_jobs_remove
    \/ wait_jobs

Spec == Init /\ [][Next]_vars

----------------------------------------------------------------------------
\* build_and_submit_jobs on a flattened job list: the list build_joblist
\* returns for an acyclic graph, with or without dependencies, handed to the
\* adapter as it is.

\* Lines 35-37: the jobset of build_joblist, for acyclic dependencies.
build_joblist(roots, ord, d) == populate_loop(roots, {}, 0, ord, d).jobset

InitSubmit ==
    /\ \/ /\ dependencies \in DAGs(NJobs)
          /\ jobgraph \in RootLists(NJobs)
          /\ sgeargs = FALSE
          /\ mkdirfails = FALSE
       \/ /\ dependencies = Diamond
          /\ jobgraph = <<4>>
          /\ sgeargs \in BOOLEAN
          /\ mkdirfails \in BOOLEAN
    /\ qsubfails = FALSE
    /\ pc = "build_directories"
    /\ \E ord \in TraversalOrders(dependencies) :
         jobset = build_joblist(jobgraph, ord, dependencies)
    /\ rootIdx = Len(jobgraph) + 1
    /\ joblist \in Perms(jobset)
    /\ dep_count = 0
    /\ grouped = FALSE
    /\ cmds = <<>>
    /\ sgegroupsize = 0
    /\ batches = <<>>
    /\ dirs = {}
    /\ files = <<>>
    /\ scriptpath = [j \in JobIds |-> NoPath]
    /\ outerr = [j \in JobIds |-> NoPath]
    /\ submitted = [j \in JobIds |-> FALSE]
    /\ waiting = <<>>
    /\ submittable = <<>>
    /\ subIdx = 1
    /\ qsublog = <<>>
    /\ waves = <<>>
    /\ waited = <<>>
    /\ AnimIdle
    /\ LocalIdle

NextSubmit ==
    \/ build_directories
    \/ build_job_scripts
    \/ submit_jobs
    \/ submit_loop
    \/ submit_safe_jobs
    \/ submit_jobs_remove

SpecSubmit == InitSubmit /\ [][NextSubmit]_vars

\* The scheduler runs on one thread that is never suspended for good: a
\* step of submit_jobs that can be taken is taken.
LiveSubmit ==
    /\ SpecSubmit
    /\ WF_vars(submit_jobs)
    /\ WF_vars(submit_loop)
    /\ WF_vars(submit_safe_jobs)
    /\ WF_vars(submit_jobs_remove)

----------------------------------------------------------------------------
\* build_joblist on its own: every acyclic job graph on NJobs jobs with every
\* list of roots, and the diamond.

InitFlatten ==
    /\ \/ /\ dependencies \in DAGs(NJobs)
          /\ jobgraph \in RootLists(NJobs)
       \/ /\ dependencies = Diamond
          /\ jobgraph = <<4>>
    /\ sgeargs = FALSE
    /\ qsubfails = FALSE
    /\ mkdirfails = FALSE
    /\ pc = "build_joblist"
    /\ InitRun
    /\ AnimIdle
    /\ LocalIdle

NextFlatten ==
    \/ build_joblist_loop
    \/ build_joblist_return

SpecFlatten == InitFlatten /\ [][NextFlatten]_vars

----------------------------------------------------------------------------
\* build_and_submit_jobs on any list of jobs: a list of up to MaxWaiting
\* jobs of an acyclic graph, which may name a job more than once and may
\* leave out dependencies of its jobs (their submitted flag is False).

InitList ==
    /\ dependencies \in DAGs(NJobs)
    /\ jobgraph = <<>>
    /\ sgeargs = FALSE
    /\ qsubfails = FALSE
    /\ mkdirfails = FALSE
    /\ pc = "build_directories"
    /\ jobset = {}
    /\ rootIdx = 1
    /\ joblist \in UNION {[1..k -> 1..NJobs] : k \in 0..MaxWaiting}
    /\ dep_count = 0
    /\ grouped = FALSE
    /\ cmds = <<>>
    /\ sgegroupsize = 0
    /\ batches = <<>>
    /\ dirs = {}
    /\ files = <<>>
    /\ scriptpath = [j \in JobIds |-> NoPath]
    /\ outerr = [j \in JobIds |-> NoPath]
    /\ submitted = [j \in JobIds |-> FALSE]
    /\ waiting = <<>>
    /\ submittable = <<>>
    /\ subIdx = 1
    /\ qsublog = <<>>
    /\ waves = <<>>
    /\ waited = <<>>
    /\ AnimIdle
    /\ LocalIdle

SpecList == InitList /\ [][NextSubmit]_vars

----------------------------------------------------------------------------
\* extract_submittable_jobs on its own: any job graph, any waiting list and
\* any submitted flags.

InitExtract ==
    /\ dependencies \in Graphs(NJobs)
    /\ jobgraph = <<>>
    /\ pc = "extract"
    /\ jobset = {}
    /\ rootIdx = 1
    /\ joblist = <<>>
    /\ dep_count = 0
    /\ grouped = FALSE
    /\ cmds = <<>>
    /\ sgegroupsize = 0
    /\ batches = <<>>
    /\ sgeargs = FALSE
    /\ qsubfails = FALSE
    /\ mkdirfails = FALSE
    /\ dirs = {}
    /\ files = <<>>
    /\ scriptpath = [j \in JobIds |-> NoPath]
    /\ outerr = [j \in JobIds |-> NoPath]
    /\ submitted \in [JobIds -> BOOLEAN]
    /\ \A j \in JobIds \ (1..NJobs) : submitted[j] = FALSE
    /\ waiting \in UNION {[1..k -> 1..NJobs] : k \in 0..MaxWaiting}
    /\ submittable = <<>>
    /\ subIdx = 1
    /\ qsublog = <<>>
    /\ waves = <<>>
    /\ waited = <<>>
    /\ AnimIdle
    /\ LocalIdle

\* Line 248: submittable = extract_submittable_jobs(waiting); list(submittable)
\* has the set's iteration order.
extract_call ==
    /\ pc = "extract"
    /\ submittable' \in Perms(extract_submittable_jobs(waiting, submitted))
    /\ pc' = "extracted"
    /\ UNCHANGED <<restVars, inputVars, flattenVars, branchVars, buildVars, outerr, submitted,
                   waiting, subIdx, qsublog, waves, joblist, waited>>

NextExtract == extract_call

SpecExtract == InitExtract /\ [][NextExtract]_vars

----------------------------------------------------------------------------
\* compile_jobgroups_from_joblist on its own: any command list and group size.

InitGroup ==
    /\ dependencies = [j \in Jobs |-> {}]
    /\ jobgraph = <<>>
    /\ pc = "compile"
    /\ cmds \in UNION {[1..k -> {Command(j) : j \in 1..NJobs}] : k \in 0..MaxCmds}
    /\ sgegroupsize \in 0..MaxGroupSize
    /\ jobset = {}
    /\ rootIdx = 1
    /\ joblist = <<>>
    /\ dep_count = 0
    /\ grouped = FALSE
    /\ batches = <<>>
    /\ sgeargs = FALSE
    /\ qsubfails = FALSE
    /\ mkdirfails = FALSE
    /\ dirs = {}
    /\ files = <<>>
    /\ scriptpath = [j \in JobIds |-> NoPath]
    /\ outerr = [j \in JobIds |-> NoPath]
    /\ submitted = [j \in JobIds |-> FALSE]
    /\ waiting = <<>>
    /\ submittable = <<>>
    /\ subIdx = 1
    /\ qsublog = <<>>
    /\ waves = <<>>
    /\ waited = <<>>
    /\ AnimIdle
    /\ LocalIdle

\* Lines 99-100: the call of the Group Compiler.
compile_call ==
    /\ pc = "compile"
    /\ batches' = compile_jobgroups_from_joblist(cmds, jgprefix, sgegroupsize)
    /\ pc' = "compiled"
    /\ UNCHANGED <<restVars, inputVars, flattenVars, dep_count, grouped, cmds, sgegroupsize,
                   buildVars, submitVars, joblist, waited>>

NextGroup == compile_call

SpecGroup == InitGroup /\ [][NextGroup]_vars

----------------------------------------------------------------------------
\* run_anim_jobs: with the local worker pool (run_mp.run_dependency_graph),
\* and its call of the cluster adapter for any other scheduler.
\* The pool itself is pyani.run_multiprocessing, modelled from its design:
\* a job starts once every dependency has completed, at most `workers` jobs
\* run at a time, and the number of jobs that exited with a failure status
\* is returned.

\* The jobs of the graph handed to the pool.
PoolJobs == Reachable(Range(jobgraph), dependencies)

Running == {j \in Jobs : mpstate[j] = "running"}

\* A start condition that only asks that the dependencies have ended.
Eligible_ended(j) == \A dep \in Deps(j) : mpstate[dep] \in {"completed", "failed"}

\* A start condition that only asks that the dependencies have been started.
Eligible_started(j) == \A dep \in Deps(j) : mpstate[dep] # "pending"

\* Every dependency of the job has reported completion.
Eligible(j) == \A dep \in Deps(j) : mpstate[dep] = "completed"

\* A pool that always has a free worker.
PoolFree_always == TRUE

\* A worker of the pool is free.
PoolFree == Cardinality(Running) < workers

\* Lines 432-440: the multiprocessing branch calls the pool with the jobs.
run_anim_jobs_mp ==
    /\ pc = "run_anim_jobs"
    /\ pc' = "run_mp"
    /\ UNCHANGED <<restVars, inputVars, flattenVars, branchVars, buildVars,
                   submitVars, joblist, waited>>

\* The pool starts a job.
mp_dispatch ==
    /\ pc = "run_mp"
    /\ \E j \in PoolJobs :
         /\ mpstate[j] = "pending"
         /\ Eligible(j)
         /\ PoolFree
         /\ mpstate' = [mpstate EXCEPT ![j] = "running"]
    /\ UNCHANGED <<animVars, workers, cumval, inputVars, flattenVars, branchVars,
                   buildVars, submitVars, pc, joblist, waited>>

\* The process of a running job exits, with status 0 or with a failure
\* status, which is counted.
mp_exit ==
    /\ pc = "run_mp"
    /\ \E j \in Running, status \in {0, 1} :
         /\ mpstate' = [mpstate EXCEPT ![j] = IF status = 0 THEN "completed"
                                                           ELSE "failed"]
         /\ cumval' = IF status = 0 THEN cumval ELSE cumval + 1
    /\ UNCHANGED <<animVars, workers, inputVars, flattenVars, branchVars,
                   buildVars, submitVars, pc, joblist, waited>>

\* The pool returns the count when nothing runs and nothing can be started.
mp_return ==
    /\ pc = "run_mp"
    /\ Running = {}
    /\ \A j \in PoolJobs : mpstate[j] = "pending" => ~Eligible(j)
    /\ pc' = "returned"
    /\ UNCHANGED <<restVars, inputVars, flattenVars, branchVars, buildVars,
                   submitVars, joblist, waited>>

\* A test that lets a single failure pass.
batch_failed_above_one(count) == 1 < count

\* Line 441: if 0 < cumval.
batch_failed(count) == 0 < count

\* Lines 441-448: raise PyaniException, or log the run as completed.
run_anim_jobs_check ==
    /\ pc = "returned"
    /\ pc' = IF batch_failed(cumval) THEN "PyaniException" ELSE "completed"
    /\ UNCHANGED <<restVars, inputVars, flattenVars, branchVars, buildVars,
                   submitVars, joblist, waited>>

\* Lines 449-458, any other scheduler: run_sge.run_dependency_graph is
\* called with one positional argument, the list of jobs, and the keywords
\* logger, jgprefix, sgegroupsize and sgeargs.  The function's parameters are
\* (jobdir, jobgraph, logger=None, ...): the list is bound to jobdir, nothing
\* is bound to jobgraph, and the call raises TypeError before its body runs.
run_anim_jobs_sge ==
    /\ pc = "run_anim_jobs"
    /\ pc' = "TypeError"
    /\ UNCHANGED <<restVars, inputVars, flattenVars, branchVars, buildVars,
                   submitVars, joblist, waited>>

InitLocal ==
    /\ \/ /\ dependencies \in DAGs(NJobs)
          /\ jobgraph \in RootLists(NJobs)
       \/ /\ dependencies = Diamond
          /\ jobgraph = <<4>>
    /\ sgeargs = FALSE
    /\ qsubfails = FALSE
    /\ mkdirfails = FALSE
    /\ pc = "run_anim_jobs"
    /\ InitRun
    /\ AnimIdle
    /\ workers \in 1..MaxWorkers
    /\ mpstate = [j \in Jobs |-> "pending"]
    /\ cumval = 0

NextLocal ==
    \/ run_anim_jobs_mp
    \/ run_anim_jobs_sge
    \/ mp_dispatch
    \/ mp_exit
    \/ mp_return
    \/ run_anim_jobs_check

SpecLocal == InitLocal /\ [][NextLocal]_vars

----------------------------------------------------------------------------
\* generate_joblist (subcmd_anim.py): the jobs of an ANIm run and their names.

\* The decimal digits of a natural number.
RECURSIVE Digits(_)
Digits(n) == IF n < 10 THEN <<n>> ELSE Digits(n \div 10) \o <<n % 10>>

\* "%06d" % n: the digits of n, with zeros in front up to a width of six.
Format06d(n) ==
    LET ds == Digits(n)
    IN IF Len(ds) >= 6 THEN ds ELSE [i \in 1..(6 - Len(ds)) |-> 0] \o ds

\* args.jobprefix
jobprefix == "jobprefix"

\* A name that leaves the index of the comparison out.
AnimName_no_index(idx, suffix) == <<jobprefix, "_", suffix>>

\* Lines 398-399: "%s_%06d-n" % (args.jobprefix, idx), and "-f".
AnimName(idx, suffix) == <<jobprefix, "_">> \o Format06d(idx) \o <<suffix>>

\* Lines 398-400: the nucmer job and the filter job that depends on it.
NucmerJob(idx) ==
    [name |-> AnimName(idx, "-n"), command |-> <<"ncmd", idx>>, dependencies |-> <<>>]

\* A filter job built without fjob.add_dependency(njob).
FilterJob_nodep(idx) ==
    [name |-> AnimName(idx, "-f"), command |-> <<"dcmd", idx>>, dependencies |-> <<>>]

FilterJob(idx) ==
    [name |-> AnimName(idx, "-f"), command |-> <<"dcmd", idx>>,
     dependencies |-> <<NucmerJob(idx)>>]

\* Lines 367-401: one iteration of the loop over enumerate(comparisons); in
\* recovery mode no job is built for a comparison whose output file exists.
generate_joblist_loop ==
    /\ pc = "generate_joblist"
    /\ animidx < Len(comparisons)
    /\ animjobs' = IF recovery /\ comparisons[animidx + 1]
                   THEN animjobs
                   ELSE Append(animjobs, FilterJob(animidx))
    /\ animidx' = animidx + 1
    /\ UNCHANGED <<comparisons, recovery, localVars, inputVars, flattenVars,
                   branchVars, buildVars, submitVars, pc, joblist, waited>>

\* Line 402: return joblist.
generate_joblist_return ==
    /\ pc = "generate_joblist"
    /\ animidx = Len(comparisons)
    /\ pc' = "generated"
    /\ UNCHANGED <<restVars, inputVars, flattenVars, branchVars, buildVars,
                   submitVars, joblist, waited>>

InitAnim ==
    /\ comparisons \in UNION {[1..k -> BOOLEAN] : k \in 0..MaxComparisons}
    /\ recovery \in BOOLEAN
    /\ animidx = 0
    /\ animjobs = <<>>
    /\ pc = "generate_joblist"
    /\ dependencies = [j \in Jobs |-> {}]
    /\ jobgraph = <<>>
    /\ sgeargs = FALSE
    /\ qsubfails = FALSE
    /\ mkdirfails = FALSE
    /\ InitRun
    /\ LocalIdle

\* The two places that name the jobs of a run: generate_joblist, and the
\* Group Compiler for a dependency-free list.
InitNames == InitAnim \/ InitGroup

NextNames ==
    \/ generate_joblist_loop
    \/ generate_joblist_return
    \/ compile_call

SpecNames == InitNames /\ [][NextNames]_vars

----------------------------------------------------------------------------
\* run_dependency_graph on the job graph of generate_joblist: the jobs of
\* the i-th ComparisonJob are job 2i-1 (nucmer) and job 2i (filter).

NucmerId(i) == 2 * i - 1

FilterId(i) == 2 * i

\* The ComparisonJobs whose jobs fit into Jobs.
MaxPairs == Cardinality(Jobs) \div 2

\* run_dependency_graph is entered with jobgraph = [_.job for _ in joblist]
\* (subcmd_anim.py line 453): the filter jobs, each with the dependencies
\* generate_joblist gave it.
run_dependency_graph_call ==
    /\ pc = "generated"
    /\ Len(animjobs) <= MaxPairs
    /\ dependencies' = [j \in Jobs |->
                          IF /\ j % 2 = 0
                             /\ j \div 2 \in DOMAIN animjobs
                             /\ animjobs[j \div 2].dependencies # <<>>
                          THEN {j - 1} ELSE {}]
    /\ jobgraph' = [i \in DOMAIN animjobs |-> FilterId(i)]
    /\ pc' = "build_joblist"
    /\ UNCHANGED <<restVars, sgeargs, qsubfails, mkdirfails, flattenVars, branchVars,
                   buildVars, submitVars, joblist, waited>>

InitAnimRun ==
    /\ comparisons \in UNION {[1..k -> BOOLEAN] : k \in 0..MaxPairs}
    /\ recovery \in BOOLEAN
    /\ animidx = 0
    /\ animjobs = <<>>
    /\ pc = "generate_joblist"
    /\ dependencies = [j \in Jobs |-> {}]
    /\ jobgraph = <<>>
    /\ sgeargs \in BOOLEAN
    /\ qsubfails = FALSE
    /\ mkdirfails = FALSE
    /\ InitRun
    /\ LocalIdle

NextAnimRun ==
    \/ generate_joblist_loop
    \/ generate_joblist_return
    \/ run_dependency_graph_call
    \/ Next

SpecAnimRun == InitAnimRun /\ [][NextAnimRun]_vars

----------------------------------------------------------------------------
\* The Resolver (build_joblist).

NoDuplicates(s) == \A i, k \in DOMAIN s : i # k => s[i] # s[k]

\* C1: for an acyclic job graph build_joblist returns (it does not raise), the
\* jobs of the returned list are exactly the jobs reachable from the roots
\* along dependency edges, and no job is in the list twice, also for a job
\* reachable along several paths or listed as a root more than once.
C1_FlattenExact ==
    /\ pc = "RecursionError" => CyclicFrom(Range(jobgraph), dependencies)
    /\ pc = "log" =>
         /\ Range(joblist) = Reachable(Range(jobgraph), dependencies)
         /\ NoDuplicates(joblist)

\* The diamond is flattened: A is reached through B and through C.
C1_Witness ==
    /\ pc = "log"
    /\ dependencies = Diamond
    /\ jobgraph = <<4>>
    /\ Len(joblist) = 4

----------------------------------------------------------------------------
\* The cluster adapter's submission loop.

SubmittedBefore(i) == {qsublog[k].job : k \in 1..(i - 1)}

\* C3: when the submission invocation of a job is executed, every dependency
\* of the job has submitted = TRUE and its own invocation was executed
\* earlier in the run.
C3_SubmitAfterDependencies ==
    /\ \A i \in DOMAIN qsublog :
         Deps(qsublog[i].job) \subseteq SubmittedBefore(i)
    /\ pc = "submit_safe_jobs" =>
         \A k \in subIdx..Len(submittable) :
             \A dep \in Deps(submittable[k]) : submitted[dep]

\* A job that has dependencies has been submitted.
C3_Witness ==
    \E i \in DOMAIN qsublog : Deps(qsublog[i].job) # {}

Max(S) == CHOOSE x \in S : \A y \in S : y <= x

\* The number of jobs of the longest dependency chain that ends in job j.
RECURSIVE Level(_)
Level(j) ==
    IF Deps(j) = {} THEN 1 ELSE 1 + Max({Level(dep) : dep \in Deps(j)})

\* The depth of the dependency graph of a list of jobs.
Depth(jobs) ==
    IF jobs = <<>> THEN 0 ELSE Max({Level(j) : j \in Range(jobs)})

\* C4: for an acyclic flattened job list with no job submitted at the start,
\* the k-th iteration of submit_jobs submits exactly the jobs whose longest
\* dependency chain has k jobs, the number of waves is the depth of the
\* graph, and the waves of the diamond are {A}, {B, C}, {D}.
C4_WavesAreLevels ==
    /\ \A k \in DOMAIN waves : waves[k] = {j \in Range(joblist) : Level(j) = k}
    /\ (pc = "submit_loop" /\ waiting = <<>>) => Len(waves) = Depth(joblist)
    /\ (pc = "submit_loop" /\ waiting = <<>>
          /\ dependencies = Diamond /\ jobgraph = <<4>>) =>
           waves = <<{1}, {2, 3}, {4}>>

\* The diamond has been submitted in three waves.
C4_Witness ==
    /\ pc = "submit_loop"
    /\ waiting = <<>>
    /\ dependencies = Diamond
    /\ jobgraph = <<4>>
    /\ Len(waves) = 3

C6_CycleDetected ==
    (CyclicFrom(Range(jobgraph), dependencies) /\ pc # "build_joblist") =>
        (pc = "CyclicDependencyError" /\ qsublog = <<>>)

\* C7: a job whose submitted flag is TRUE keeps it in every later state: no
\* operation of the adapter resets it.
C7_SubmittedMonotonic ==
    [][\A j \in JobIds : submitted[j] => submitted'[j]]_vars

\* A run has ended with submitted jobs: every operation of the adapter has
\* acted after the first submission.
C7_Witness ==
    /\ pc = "done"
    /\ Len(waited) > 1
    /\ \A j \in Range(waited) : submitted[j]

----------------------------------------------------------------------------
\* The Group Compiler.

CeilDiv(a, b) == (a + b - 1) \div b

\* The lines of a text: what precedes each newline.
RECURSIVE Lines(_)
Lines(text) ==
    IF text = <<>> THEN <<>>
    ELSE IF \E i \in DOMAIN text : text[i] = NL
    THEN LET i == CHOOSE x \in DOMAIN text :
                      text[x] = NL /\ \A y \in 1..(x - 1) : text[y] # NL
         IN <<SubSeq(text, 1, i - 1)>> \o Lines(SubSeq(text, i + 1, Len(text)))
    ELSE <<text>>

\* The commands a batch bundles: the lines of its command text.
Bundled(batch) == Lines(batch.command)

RECURSIVE Concat(_)
Concat(lists) ==
    IF lists = <<>> THEN <<>> ELSE Head(lists) \o Concat(Tail(lists))

\* C8: for a list of L commands and a group size G >= 1 the Group Compiler
\* yields ceil(L/G) batches, each bundling at most G commands, and the
\* bundled commands of the batches, in batch order, are the original list.
C8_LosslessPartition ==
    (pc = "compiled" /\ sgegroupsize >= 1) =>
        /\ Len(batches) = CeilDiv(Len(cmds), sgegroupsize)
        /\ \A k \in DOMAIN batches : Len(Bundled(batches[k])) <= sgegroupsize
        /\ Concat([k \in DOMAIN batches |-> Bundled(batches[k])])
               = [i \in DOMAIN cmds |-> <<cmds[i]>>]

\* A list is compiled into full batches and a shorter last one.
C8_Witness ==
    /\ pc = "compiled"
    /\ sgegroupsize > 1
    /\ Len(batches) > 1
    /\ Len(Bundled(batches[Len(batches)])) < sgegroupsize

\* The total number of dependencies of the flattened jobs.
RECURSIVE TotalDeps(_)
TotalDeps(S) ==
    IF S = {} THEN 0
    ELSE LET j == CHOOSE x \in S : TRUE
         IN Cardinality(dependencies[j]) + TotalDeps(S \ {j})

PastBranch ==
    pc \in {"build_directories", "build_job_scripts", "submit_jobs", "submit_loop",
            "submit_safe_jobs", "done"}

\* C9: run_dependency_graph repacks the flattened jobs into batches if and
\* only if their total number of dependencies is zero; with a dependency no
\* batch is built and every flattened job is submitted as its own submission.
C9_GroupIffNoDependencies ==
    /\ grouped => (PastBranch /\ TotalDeps(jobset) = 0)
    /\ (PastBranch /\ TotalDeps(jobset) = 0) => grouped
    /\ grouped => Range(joblist) \subseteq BatchIds
    /\ ~grouped => (batches = <<>> /\ Range(joblist) \subseteq Jobs)
    /\ (pc = "done" /\ ~grouped) =>
           /\ Len(qsublog) = Cardinality(jobset)
           /\ {qsublog[i].job : i \in DOMAIN qsublog} = jobset

\* A run with dependencies has ended: nothing was repacked.
C9_Witness ==
    /\ pc = "done"
    /\ ~grouped
    /\ TotalDeps(jobset) > 0
    /\ Len(qsublog) > 1

\* C10 (the claim as stated): every batch of the Group Compiler is a
\* JobGroup whose task count is the number of commands it bundles, and the
\* k-th batch is named <prefix>_<k>.
C10_BatchesAreJobGroups ==
    pc = "compiled" =>
        \A k \in DOMAIN batches :
            /\ batches[k].kind = "JobGroup"
            /\ batches[k].tasks = Len(Bundled(batches[k]))
            /\ batches[k].name = <<jgprefix, "_", k>>

----------------------------------------------------------------------------
\* The submission invocation.

\* C11: the invocation executed for a job carries a hold directive if and
\* only if the job has a dependency; the directive is then "-hold_jid "
\* followed by the names of exactly the job's dependencies, each once,
\* separated by commas, and it ends with a name, not with a comma.
C11_HoldDirective ==
    \A i \in DOMAIN qsublog :
        LET job == qsublog[i].job
            hold == qsublog[i].cmd.hold
            k == Cardinality(Deps(job))
        IN /\ (hold # <<>>) <=> (k > 0)
           /\ k > 0 =>
                /\ Len(hold) = 2 * k
                /\ hold[1] = "-hold_jid "
                /\ {hold[2 * n] : n \in 1..k} = {Name(dep) : dep \in Deps(job)}
                /\ \A n \in 1..(k - 1) : hold[2 * n + 1] = ","
                /\ hold[Len(hold)] # ","

\* A job with two dependencies and a job with none have been submitted.
C11_Witness ==
    /\ \E i \in DOMAIN qsublog : Cardinality(Deps(qsublog[i].job)) = 2
    /\ \E i \in DOMAIN qsublog : Deps(qsublog[i].job) = {}

----------------------------------------------------------------------------
\* The completion waits of run_dependency_graph.

\* The number of entries of the list s that are x.
Count(s, x) == Cardinality({i \in DOMAIN s : s[i] = x})

\* The jobs whose submission invocation has been executed.
Invoked == {qsublog[i].job : i \in DOMAIN qsublog}

\* C12: no wait is started before the submission invocation of every job of
\* the run has been executed, and when run_dependency_graph returns wait()
\* has been called exactly once on every submitted job (and on no other).
C12_WaitAfterAllSubmissions ==
    /\ waited # <<>> =>
         /\ waiting = <<>>
         /\ Range(joblist) \subseteq Invoked
         /\ \A j \in Range(joblist) : submitted[j]
    /\ pc = "done" =>
         /\ \A j \in Invoked : Count(waited, j) = 1
         /\ Range(waited) \subseteq Invoked

\* A run of three jobs in two or more waves has returned.
C12_Witness ==
    /\ pc = "done"
    /\ Len(waves) > 1
    /\ Len(waited) > 2

\* The position of job j in the list s.
Pos(s, j) == CHOOSE i \in DOMAIN s : s[i] = j

\* C13 (the claim as stated): the waits are performed in submission order:
\* when the invocation of job X was executed before that of job Y, wait()
\* is called on X before it is called on Y.
C13_WaitInSubmissionOrder ==
    pc = "done" =>
        \A a, b \in DOMAIN qsublog :
            a < b => Pos(waited, qsublog[a].job) < Pos(waited, qsublog[b].job)

\* The number of submission invocations of the run that failed.
FailedSubmissions == Cardinality({i \in DOMAIN qsublog : qsublog[i].status # 0})

\* C14 (the claim as stated): the exit status of every submission invocation
\* is captured and counted for the caller; in particular, when a run in which
\* a submission failed has ended, the caller receives the number of failed
\* submissions: the failure is not silent.
C14_SubmissionFailuresCounted ==
    (pc = "done" /\ FailedSubmissions > 0) => retval = <<FailedSubmissions>>

----------------------------------------------------------------------------
\* The local worker pool.

\* C15: with the local worker pool, run_anim_jobs raises the batch-failure
\* exception whenever the failure count returned by the pool is not zero, and
\* reports the run as completed only when the count is zero.
C15_NonzeroCountIsFailure ==
    /\ [](pc = "PyaniException" => cumval # 0)
    /\ [](pc = "completed" => cumval = 0)
    /\ [][pc = "returned" =>
            pc' = IF cumval # 0 THEN "PyaniException" ELSE "completed"]_vars

\* A run with exactly one failed job has raised the exception.
C15_Witness ==
    /\ pc = "PyaniException"
    /\ cumval = 1
    /\ \E j \in PoolJobs : mpstate[j] = "completed"

\* C16: a job is started only after the process of every one of its
\* dependencies has ended; a dependency that is running, or not started, keeps
\* the job pending, in every interleaving of the workers.
C16_StartAfterCompletion ==
    /\ [](\A j \in Jobs :
            mpstate[j] # "pending" =>
                \A dep \in Deps(j) : mpstate[dep] \in {"completed", "failed"})
    /\ [][\A j \in Jobs :
            (mpstate[j] = "pending" /\ mpstate'[j] # "pending") =>
                \A dep \in Deps(j) : mpstate[dep] \in {"completed", "failed"}]_vars

\* A job that depends on two jobs is running.
C16_Witness ==
    \E j \in Jobs :
        /\ mpstate[j] = "running"
        /\ Cardinality(Deps(j)) = 2

\* The pool has returned its count.
PoolReturned == pc \in {"returned", "PyaniException", "completed"}

\* C17: on the diamond, when the process of B has exited with a failure
\* status, D is never started, and the count the pool returns is at least 1.
C17_FailedDependencyBlocks ==
    (dependencies = Diamond /\ jobgraph = <<4>> /\ mpstate[2] = "failed") =>
        /\ mpstate[4] = "pending"
        /\ PoolReturned => cumval >= 1

\* The pool has returned on the diamond with A and C completed and B failed.
C17_Witness ==
    /\ dependencies = Diamond
    /\ jobgraph = <<4>>
    /\ PoolReturned
    /\ mpstate[1] = "completed"
    /\ mpstate[2] = "failed"
    /\ mpstate[3] = "completed"

\* C18: at most `workers` jobs are running in any reachable state, in
\* particular for more independent jobs than the pool has workers.
C18_BoundedConcurrency ==
    Cardinality(Running) <= workers

\* The pool is full and an independent job is waiting for a worker.
C18_Witness ==
    /\ \A j \in PoolJobs : Deps(j) = {}
    /\ Cardinality(PoolJobs) > workers
    /\ Cardinality(Running) = workers
    /\ \E j \in PoolJobs : mpstate[j] = "pending"

----------------------------------------------------------------------------
\* Job identity.

\* C19 (the claim as stated): no two distinct jobs handed to the cluster
\* adapter in one run have the same index, so no two of them share a script,
\* stdout or stderr subdirectory, whether they are the caller's jobs or the
\* batches of the Group Compiler.
C19_IndexUnique ==
    PastBranch =>
        \A j, k \in Range(joblist) :
            j # k => (Index(j) # Index(k) /\ JobDirs(j) \cap JobDirs(k) = {})

\* The names of the jobs generate_joblist has built: every filter job and
\* its nucmer job, in the order they were built.
RECURSIVE AnimNames(_)
AnimNames(jobs) ==
    IF jobs = <<>> THEN <<>>
    ELSE <<Head(jobs).dependencies[1].name, Head(jobs).name>> \o AnimNames(Tail(jobs))

\* C20: the nucmer and filter jobs generate_joblist builds have pairwise
\* distinct names, for any list of comparisons, and the batches the Group
\* Compiler builds for one prefix have pairwise distinct names.
C20_NamesDistinct ==
    /\ NoDuplicates(AnimNames(animjobs))
    /\ pc = "compiled" => NoDuplicates([k \in DOMAIN batches |-> batches[k].name])

\* generate_joblist has returned the jobs of two comparisons out of three.
C20_Witness ==
    /\ pc = "generated"
    /\ Len(comparisons) = 3
    /\ Len(animjobs) = 2

----------------------------------------------------------------------------
\* The directories and the script of every job of a list exist.
AllBuilt(jobs) ==
    \A j \in Range(jobs) : JobDirs(j) \subseteq dirs /\ ScriptPath(j) \in DOMAIN files

\* C21: in build_and_submit_jobs the three index-keyed directories and the
\* script file of every job exist from the call of submit_jobs on, so before
\* the first submission invocation is executed, and no step that executes an
\* invocation or follows one creates a directory or writes a script.
C21_BuiltBeforeSubmission ==
    /\ []((pc \in {"submit_jobs", "submit_loop", "submit_safe_jobs"} \/ qsublog # <<>>)
            => AllBuilt(joblist))
    /\ [][qsublog' # <<>> => (dirs' = dirs /\ files' = files)]_vars

\* The first invocation of a list of several jobs has been executed.
C21_Witness ==
    /\ Len(qsublog) = 1
    /\ Len(joblist) > 1
    /\ AllBuilt(joblist)
    /\ Cardinality(dirs) = 3 * Len(joblist)

----------------------------------------------------------------------------
\* No job object has been touched by the adapter and nothing was submitted.
Untouched ==
    /\ qsublog = <<>>
    /\ \A j \in JobIds :
         /\ submitted[j] = FALSE
         /\ scriptpath[j] = NoPath
         /\ outerr[j] = NoPath

\* C22: when making a directory of the output tree fails, so that a
\* directory of some job is missing once build_directories is over, the run
\* has ended with the OSError: no submission invocation is executed, no
\* job's submitted flag, script path, stdout path or stderr path is changed,
\* and the run takes no further step.
C22_MkdirFailureAborts ==
    /\ []((pc # "build_directories" /\ \E j \in Range(joblist) : ~(JobDirs(j) \subseteq dirs))
            => (pc = "OSError" /\ Untouched))
    /\ [][pc # "OSError"]_vars

\* The creation of the fifth directory has failed.
C22_Witness ==
    /\ pc = "OSError"
    /\ Cardinality(dirs) = 4
    /\ Untouched

----------------------------------------------------------------------------
\* The job objects that exist: the caller's jobs and the batches built.
JobObjects == Jobs \cup {BatchId(k) : k \in 1..Len(batches)}

\* A step of the cluster adapter.
AdapterStep ==
    \/ build_directories
    \/ build_job_scripts
    \/ submit_jobs
    \/ submit_loop
    \/ submit_safe_jobs
    \/ submit_jobs_remove

\* C23: no step of the cluster adapter (build_directories, build_job_scripts,
\* submit_jobs, submit_safe_jobs) changes the name, the index, the command or
\* the dependency set of a job; the job fields it changes are the submitted
\* flag, the script path and the stdout and stderr paths.
C23_AdapterFrame ==
    [][AdapterStep =>
         /\ JobObjects' = JobObjects
         /\ \A j \in JobObjects :
              /\ Name(j)' = Name(j)
              /\ Index(j)' = Index(j)
              /\ Script(j)' = Script(j)
              /\ Deps(j)' = Deps(j)]_vars

\* The adapter has submitted a job that has dependencies.
C23_Witness ==
    /\ pc = "submit_loop"
    /\ waiting = <<>>
    /\ \E j \in Range(joblist) :
         /\ Deps(j) # {}
         /\ submitted[j]
         /\ scriptpath[j] # NoPath
         /\ outerr[j] # NoPath

----------------------------------------------------------------------------
\* The adapter has filled in the scheduler-state fields of a job.
Populated(j) ==
    /\ submitted[j] = TRUE
    /\ scriptpath[j] # NoPath
    /\ outerr[j] # NoPath

\* C24: when run_dependency_graph returns, every job of the flattened graph
\* the caller supplied has submitted = TRUE and a script path, a stdout path
\* and a stderr path, whether the graph has dependencies or is
\* dependency-free and repacked into groups.
C24_CallerJobsPopulated ==
    pc = "done" => \A j \in jobset : Populated(j)

\* The same for the runs that keep the caller's jobs (line 97 not taken).
C24_KeptJobsPopulated ==
    (pc = "done" /\ ~grouped) => \A j \in jobset : Populated(j)

----------------------------------------------------------------------------
\* The lists that hold the elements of s in another order.
Orderings(s) ==
    {[i \in 1..Len(s) |-> s[p[i]]] : p \in Perms(1..Len(s))}

\* The depth values a call of populate_jobset is started with.
Depths == 0..(RecursionLimit - NJobs)

\* C25: for an acyclic graph, build_joblist applied to the list it returned
\* yields the same set of jobs; the set is the same for every ordering of the
\* roots and every order in which the dependencies of a job are visited; and
\* the depth value populate_jobset is started with does not change it.
C25_FlattenIdempotent ==
    /\ (pc = "log") =>
          \A ord \in TraversalOrders(dependencies) :
            build_joblist(joblist, ord, dependencies) = Range(joblist)
    /\ (pc = "build_joblist" /\ rootIdx > Len(jobgraph)) =>
          \A ord \in TraversalOrders(dependencies) :
            /\ \A roots \in Orderings(jobgraph) :
                 build_joblist(roots, ord, dependencies) = jobset
            /\ \A depth \in Depths :
                 populate_loop(jobgraph, {}, depth, ord, dependencies)
                   = [raised |-> FALSE, jobset |-> jobset]

\* Two roots and a job with two dependencies have been flattened to three
\* jobs.
C25_Witness ==
    /\ pc = "log"
    /\ Len(jobgraph) = 2
    /\ jobgraph[1] # jobgraph[2]
    /\ Cardinality(jobset) = 3
    /\ \E j \in jobset : Cardinality(dependencies[j]) = 2
    /\ build_joblist(joblist, Ascending(Jobs), dependencies) = jobset

----------------------------------------------------------------------------
\* C26: extract_submittable_jobs returns an empty collection for an empty
\* waiting list, whatever the flags of the jobs are, and submit_jobs called
\* with an empty job list leaves its loop at the first test: its body is
\* never entered, no wave is extracted and no submission invocation is
\* executed.
C26_EmptyListNoOp ==
    /\ extract_submittable_jobs(<<>>, submitted) = {}
    /\ (joblist = <<>> /\ pc \in {"submit_loop", "submit_safe_jobs", "done"}) =>
          /\ pc # "submit_safe_jobs"
          /\ waiting = <<>>
          /\ waves = <<>>
          /\ qsublog = <<>>

\* A run with an empty job list has returned.
C26_Witness ==
    /\ pc = "done"
    /\ joblist = <<>>
    /\ waves = <<>>
    /\ qsublog = <<>>

----------------------------------------------------------------------------
\* The scripts of the job list have been written.
ScriptsWritten == pc \in {"submit_jobs", "submit_loop", "submit_safe_jobs", "done"}

\* The directive lines every script starts with: the interpreter directive
\* and the scheduler's shell directive.
ScriptHeader == <<"#!/bin/sh", NL, "#$ -S /bin/bash", NL>>

\* What follows the directive lines of a text, without the final newline.
ScriptBody(text) == SubSeq(text, Len(ScriptHeader) + 1, Len(text) - 1)

\* C27: the script file of every job of the list starts with the interpreter
\* directive as its first line, and after the directive lines holds the
\* job's command text, whole and unchanged, and a final newline; the script
\* of the k-th batch of the Group Compiler holds every command of the k-th
\* group of the flattened list, one per line, in the original order.
C27_ScriptFidelity ==
    ScriptsWritten =>
        \A i \in DOMAIN joblist :
            LET j == joblist[i]
            IN /\ ScriptPath(j) \in DOMAIN files
               /\ LET text == files[ScriptPath(j)]
                  IN /\ Len(text) > Len(ScriptHeader)
                     /\ SubSeq(text, 1, 2) = <<"#!/bin/sh", NL>>
                     /\ SubSeq(text, 1, Len(ScriptHeader)) = ScriptHeader
                     /\ text[Len(text)] = NL
                     /\ ~grouped => ScriptBody(text) = <<Command(j)>>
                     /\ grouped =>
                          LET sublist == split_seq(cmds, sgegroupsize)[i]
                          IN Lines(ScriptBody(text))
                               = [n \in DOMAIN sublist |-> <<sublist[n]>>]

\* The script of a batch of two commands has been written.
C27_Witness ==
    /\ ScriptsWritten
    /\ grouped
    /\ \E i \in DOMAIN joblist :
         /\ Len(split_seq(cmds, sgegroupsize)[i]) = 2
         /\ Len(Lines(ScriptBody(files[ScriptPath(joblist[i])]))) = 2

----------------------------------------------------------------------------
\* The number of submission invocations executed for a job.
Invocations(j) == Cardinality({i \in DOMAIN qsublog : qsublog[i].job = j})

\* The jobs extracted by the first n iterations of submit_jobs.
Extracted(n) == UNION {waves[w] : w \in 1..n}

\* The states of a job within submit_jobs.
JobState(j) ==
    IF submitted[j] THEN "Submitted"
    ELSE IF pc = "submit_safe_jobs" /\ j \in Range(submittable) THEN "Submittable"
    ELSE "Pending"

\* C28: in a run of submit_jobs on a flattened job list every job is Pending
\* (in waiting, not extracted), then Submittable (extracted by the current
\* iteration), then Submitted: a job is submitted only by the iteration that
\* extracted it, it is extracted by one iteration only, it leaves waiting at
\* the end of that iteration, and its invocation is executed exactly once.
C28_JobStateMachine ==
    pc \in {"submit_loop", "submit_safe_jobs"} =>
        /\ \A v, w \in DOMAIN waves : v # w => waves[v] \cap waves[w] = {}
        /\ \A j \in Range(joblist) :
             /\ Invocations(j) = (IF submitted[j] THEN 1 ELSE 0)
             /\ Count(waiting, j) <= 1
        /\ pc = "submit_loop" =>
             \A j \in Range(joblist) :
                /\ JobState(j) = "Submitted" <=> j \in Extracted(Len(waves))
                /\ JobState(j) = "Pending" <=> j \in Range(waiting)
        /\ pc = "submit_safe_jobs" =>
             /\ waves[Len(waves)] = Range(submittable)
             /\ \A j \in Range(joblist) :
                  /\ JobState(j) = "Submitted" <=>
                        \/ j \in Extracted(Len(waves) - 1)
                        \/ \E i \in 1..(subIdx - 1) : submittable[i] = j
                  /\ JobState(j) = "Submittable" <=>
                        \E i \in subIdx..Len(submittable) : submittable[i] = j
                  /\ j \in Range(waiting) <=> j \notin Extracted(Len(waves) - 1)

\* The diamond has been submitted in three iterations, each job once.
C28_Witness ==
    /\ pc = "submit_loop"
    /\ waiting = <<>>
    /\ Len(waves) = 3
    /\ Len(joblist) = 4
    /\ \A j \in Range(joblist) : Invocations(j) = 1

----------------------------------------------------------------------------
\* C29: the submission invocation executed for a job names the script file
\* of that job, whether extra scheduler arguments were passed (sgeargs) or
\* not (None).
C29_InvocationNamesScript ==
    \A i \in DOMAIN qsublog :
        qsublog[i].cmd.script = ScriptPath(qsublog[i].job)

\* The same for the runs that pass extra scheduler arguments.
C29_ScriptNamedWithArgs ==
    sgeargs => \A i \in DOMAIN qsublog :
                  qsublog[i].cmd.script = ScriptPath(qsublog[i].job)

----------------------------------------------------------------------------
\* C30: the submission invocation of a job carries a task-range directive
\* if and only if the job is a JobGroup, the range is then 1:<task count>,
\* and every batch of the Group Compiler in a dependency-free run is
\* submitted with a task range that covers all the commands it bundles.
C30_TaskRangeForGroups ==
    \A i \in DOMAIN qsublog :
        LET j == qsublog[i].job
        IN /\ (qsublog[i].cmd.tasks # <<>>) <=> IsJobGroup(j)
           /\ j \in BatchIds =>
                qsublog[i].cmd.tasks
                  = <<"-t 1:", Len(Bundled(batches[j - Cardinality(Jobs)]))>>

\* The first half alone: a task range if and only if the job is a JobGroup.
C30_TaskRangeIffJobGroup ==
    \A i \in DOMAIN qsublog :
        (qsublog[i].cmd.tasks # <<>>) <=> IsJobGroup(qsublog[i].job)

----------------------------------------------------------------------------
\* C31: in a dependency-free run of run_dependency_graph every batch of the
\* Group Compiler has an empty dependency set, the batches are all extracted
\* by the first iteration of submit_jobs (a single wave), and no submission
\* invocation carries a hold directive.
C31_BatchesAreLeaves ==
    grouped =>
        /\ \A j \in Range(joblist) : j \in BatchIds /\ Deps(j) = {}
        /\ Len(waves) <= 1
        /\ \A w \in DOMAIN waves : waves[w] = Range(joblist)
        /\ \A i \in DOMAIN qsublog : qsublog[i].cmd.hold = <<>>
        /\ pc = "done" => /\ Invoked = Range(joblist)
                          /\ Len(waves) = (IF joblist = <<>> THEN 0 ELSE 1)

\* A dependency-free run of several batches has returned.
C31_Witness ==
    /\ pc = "done"
    /\ grouped
    /\ Len(joblist) > 1
    /\ Len(waves) = 1
    /\ Len(qsublog) = Len(joblist)

----------------------------------------------------------------------------
\* The pure function of the spec: the jobs not yet submitted all of whose
\* dependencies are in the submitted set.
nextWave(allJobs, submittedSet) ==
    {j \in allJobs \ submittedSet : Deps(j) \subseteq submittedSet}

\* nextWave iterated from a submitted set until it covers allJobs (n bounds
\* the number of iterations).
RECURSIVE PureWaves(_, _, _)
PureWaves(allJobs, submittedSet, n) ==
    IF allJobs \subseteq submittedSet \/ n = 0 THEN <<>>
    ELSE LET wave == nextWave(allJobs, submittedSet)
         IN <<wave>> \o PureWaves(allJobs, submittedSet \cup wave, n - 1)

\* C32: for an acyclic flattened job list, the waves submit_jobs extracts
\* with its waiting list are, one by one, the waves of nextWave iterated
\* from the empty submitted set, and when the loop ends the sequences are
\* equal and the submitted jobs are the same set: all the jobs of the list.
C32_WavesRefineNextWave ==
    LET pure == PureWaves(Range(joblist), {}, MaxWaves)
    IN pc \in {"submit_loop", "submit_safe_jobs"} =>
         /\ Len(waves) <= Len(pure)
         /\ \A w \in DOMAIN waves : waves[w] = pure[w]
         /\ (pc = "submit_loop" /\ waiting = <<>>) =>
              /\ waves = pure
              /\ {j \in JobIds : submitted[j]} = UNION Range(pure)
              /\ {j \in JobIds : submitted[j]} = Range(joblist)

\* submit_jobs has ended after the three waves of the diamond.
C32_Witness ==
    /\ pc = "submit_loop"
    /\ waiting = <<>>
    /\ Len(waves) = 3
    /\ waves = PureWaves(Range(joblist), {}, MaxWaves)
    /\ Cardinality(waves[2]) = 2

----------------------------------------------------------------------------
\* The nucmer jobs and the filter jobs of the ComparisonJobs built.
NucmerJobs == {NucmerId(i) : i \in DOMAIN animjobs}

FilterJobs == {FilterId(i) : i \in DOMAIN animjobs}

\* run_dependency_graph has flattened the graph.
Flattened == pc = "log" \/ PastBranch

----------------------------------------------------------------------------
\* C34: every iteration of the loop of submit_jobs that starts with a
\* non-empty waiting list submits at least one job (so the loop terminates),
\* for any list of jobs with acyclic dependencies, whether or not every
\* dependency of a listed job is in the list.
C34_EveryIterationSubmits ==
    \A w \in DOMAIN waves : waves[w] # {}

\* The same for the lists that hold every dependency of their jobs.
C34_ClosedListsProgress ==
    (\A j \in Range(joblist) : Deps(j) \subseteq Range(joblist)) =>
        \A w \in DOMAIN waves : waves[w] # {}

----------------------------------------------------------------------------
\* C35: submit_jobs executes the submission invocation of each distinct job
\* of the list exactly once, also when the list names a job more than once.
C35_DuplicatesSubmittedOnce ==
    /\ \A j \in Range(joblist) : Invocations(j) <= 1
    /\ (pc = "submit_loop" /\ waiting = <<>>) =>
          \A j \in Range(joblist) : Invocations(j) = 1

\* The same for the lists that name every job once.
C35_DistinctSubmittedOnce ==
    NoDuplicates(joblist) =>
        /\ \A j \in Range(joblist) : Invocations(j) <= 1
        /\ (pc = "submit_loop" /\ waiting = <<>>) =>
              \A j \in Range(joblist) : Invocations(j) = 1

----------------------------------------------------------------------------
\* C36: when the scheduler is not the local worker pool, run_anim_jobs hands
\* run_dependency_graph of the cluster adapter an output root and the job
\* graph, so the call is accepted and does not end in an error before any
\* submission.
C36_ClusterCallAccepted ==
    pc # "TypeError"

====
